---------------------------- MODULE Spec2Model ----------------------------
(***************************************************************************)
(* A model of the World_Sim planetary-interior simulation                  *)
(* (src/src/earth/{crust,inner_core,outer_core,mantle}.rs, src/src/main.rs).*)
(*                                                                         *)
(* Numbers.  The program computes in f32.  The model keeps every field     *)
(* whose values stay within a few orders of magnitude in fixed point, the  *)
(* unit being stated where the field is introduced, and keeps the          *)
(* heat-flux chain (inner-core heat flux, convection strength and what is  *)
(* derived from it), whose values span ten orders of magnitude, in a       *)
(* decimal floating point of four significant digits (operators F...).    *)
(* Division and remainder truncate toward zero, as Rust's / and % on       *)
(* numbers do for the sign: Rem keeps the sign of the dividend.            *)
(***************************************************************************)
EXTENDS Integers, Sequences, FiniteSets, TLC

(***************************************************************************)
(* Bounds of the model (not program constants).                            *)
(***************************************************************************)
\* the number of calls made on the object under test in one behaviour
MaxCalls == 4
\* the number of calls made on the two cores in one behaviour
MaxCoreCalls == 3
\* the number of steps main simulates in one behaviour
MaxSteps == 3
\* the number of calls made on a Crust when every operation is on offer
MaxCrustCalls == 3
\* the number of calls made when the operations of four objects are on offer
MaxObjectCalls == 2
\* the number of transform-fault steps made on one plate in one behaviour
MaxTransformCalls == 123
MaxConvectionCalls == 12
MaxFlowCalls == 2
MaxAgingSteps == 805
MaxThicknessSteps == 3
MaxPublicCalls == 4

(***************************************************************************)
(* Arithmetic helpers.                                                     *)
(***************************************************************************)
Abs(x) == IF x < 0 THEN -x ELSE x

\* f32 division of fixed-point values, truncated toward zero (b > 0)
Quot(a, b) == IF a >= 0 THEN a \div b ELSE -((-a) \div b)

\* Rust's % on floats (fmod): the result has the sign of the dividend
Rem(a, b) == a - b * Quot(a, b)

\* f32::min and f32::clamp
Min(a, b) == IF a < b THEN a ELSE b
Clamp(x, lo, hi) == IF x < lo THEN lo ELSE IF x > hi THEN hi ELSE x

(***************************************************************************)
(* Crust (crust.rs).  Units: thickness_km in 1/10000 km, age_myr in        *)
(* 1/10 Myr, the two activity factors in 1/10, erosion_rate_mm_per_yr in   *)
(* 1/1000 mm/yr, sediment_thickness_km in 1/1000 km,                       *)
(* vegetation_coverage_pct in 1/10 %, isostasy_adjustment_km in 1/1000 km, *)
(* surface_temperature_c in 1/100 degree, years in years, magma in km^3,   *)
(* plate velocity in 1/100 cm/yr.  The fields no operation writes          *)
(* (densities, albedo, ...) are left out.                                  *)
(***************************************************************************)
NoCrust ==
    [ thickness_km |-> 0, type_name |-> "", age_myr |-> 0, composition |-> "",
      tectonic_activity_factor |-> 0, volcanic_activity_factor |-> 0,
      erosion_rate_mm_per_yr |-> 0, sediment_thickness_km |-> 0,
      surface_temperature_c |-> 0, isostasy_adjustment_km |-> 0,
      vegetation_coverage_pct |-> 0 ]

ContinentalCrust ==
    [ thickness_km |-> 350000, type_name |-> "continental", age_myr |-> 10000,
      composition |-> "granite-dominated",
      tectonic_activity_factor |-> 5, volcanic_activity_factor |-> 2,
      erosion_rate_mm_per_yr |-> 100, sediment_thickness_km |-> 2000,
      surface_temperature_c |-> 1500, isostasy_adjustment_km |-> 0,
      vegetation_coverage_pct |-> 500 ]

OceanicCrust ==
    [ thickness_km |-> 70000, type_name |-> "oceanic", age_myr |-> 500,
      composition |-> "basalt-dominated",
      tectonic_activity_factor |-> 7, volcanic_activity_factor |-> 6,
      erosion_rate_mm_per_yr |-> 500, sediment_thickness_km |-> 500,
      surface_temperature_c |-> 400, isostasy_adjustment_km |-> 0,
      vegetation_coverage_pct |-> 0 ]

\* Crust::new: the constructed value, or panic! for any other type string.
Crust_new(type_name) ==
    CASE type_name = "continental" -> [panic |-> FALSE, value |-> ContinentalCrust]
      [] type_name = "oceanic" -> [panic |-> FALSE, value |-> OceanicCrust]
      [] OTHER -> [panic |-> TRUE, value |-> NoCrust]

\* added_thickness = magma_supply_km3 / 1_000_000
Crust_added_thickness(magma_supply_km3) == Quot(magma_supply_km3, 100)

Crust_grow_by_volcanism(c, magma_supply_km3) ==
    [c EXCEPT !.thickness_km = @ + Crust_added_thickness(magma_supply_km3),
              !.age_myr = 0]

\* erosion_km = (erosion_rate_mm_per_yr * years) / 1_000_000
Crust_erosion_km(c, years) ==
    Quot(c.erosion_rate_mm_per_yr * Quot(years, 100), 1000)

Crust_erode(c, years) ==
    LET t == c.thickness_km - Crust_erosion_km(c, years)
    IN  [c EXCEPT !.thickness_km = IF t < 50000 THEN 50000 ELSE t]

\* deformation = plate_motion_cm_per_year / 100 * tectonic_activity_factor
Crust_deformation(c, plate_motion_cm_per_year) ==
    Quot(plate_motion_cm_per_year * c.tectonic_activity_factor, 10)

Crust_update_tectonics(c, plate_motion_cm_per_year) ==
    LET t == c.thickness_km + Crust_deformation(c, plate_motion_cm_per_year)
    IN  [c EXCEPT !.thickness_km = IF t > 700000 THEN 700000 ELSE t]

Crust_rejuvenate_subduction(c) ==
    [c EXCEPT !.age_myr = 0, !.thickness_km = 70000,
              !.composition = "rejuvenated basaltic melt"]

\* isostasy_adjustment_km += load_change_km * 0.1
Crust_adjust_isostasy(c, load_change_km) ==
    [c EXCEPT !.isostasy_adjustment_km = @ + Quot(load_change_km, 10)]

Crust_update_surface_temperature(c, external_forcing) ==
    [c EXCEPT !.surface_temperature_c = @ + external_forcing]

Crust_deposit_sediment(c, thickness_km) ==
    [c EXCEPT !.sediment_thickness_km = @ + thickness_km]

\* Faulty variant of Crust_simulate_erosion_feedback: the rate relaxes by the
\* same factor while the sediment is at or below the threshold.
Crust_simulate_erosion_feedback_Relaxing(c) ==
    IF c.sediment_thickness_km > 5000
    THEN [c EXCEPT !.erosion_rate_mm_per_yr = Quot(@ * 12, 10)]
    ELSE [c EXCEPT !.erosion_rate_mm_per_yr = Quot(@ * 10, 12)]

\* erosion_rate_mm_per_yr *= 1.2 when sediment_thickness_km > 5.0
Crust_simulate_erosion_feedback(c) ==
    IF c.sediment_thickness_km > 5000
    THEN [c EXCEPT !.erosion_rate_mm_per_yr = Quot(@ * 12, 10)]
    ELSE c

\* Faulty variant of Crust_update_vegetation: the floor at 0 is missing.
Crust_update_vegetation_NoFloor(c, change_pct) ==
    LET v == c.vegetation_coverage_pct + change_pct
    IN  [c EXCEPT !.vegetation_coverage_pct = IF v > 1000 THEN 1000 ELSE v]

Crust_update_vegetation(c, change_pct) ==
    LET v  == c.vegetation_coverage_pct + change_pct
        v1 == IF v > 1000 THEN 1000 ELSE v
        v2 == IF v1 < 0 THEN 0 ELSE v1
    IN  [c EXCEPT !.vegetation_coverage_pct = v2]


(***************************************************************************)
(* Decimal floating point for the heat-flux chain: [m, e] stands for       *)
(* m * 10^e, with m = 0 or 1000 <= |m| <= 9999.  Every operation rounds    *)
(* its result to four significant digits, as every f32 operation rounds    *)
(* to 24 bits.                                                             *)
(***************************************************************************)
RoundDiv10(m) == Quot(m + (IF m >= 0 THEN 5 ELSE -5), 10)

RECURSIVE FNorm(_, _)
FNorm(m, e) ==
    IF m = 0 THEN [m |-> 0, e |-> 0]
    ELSE IF Abs(m) >= 10000 THEN FNorm(RoundDiv10(m), e + 1)
    ELSE IF Abs(m) < 1000 THEN FNorm(m * 10, e - 1)
    ELSE [m |-> m, e |-> e]

RECURSIVE Pow10(_)
Pow10(n) == IF n <= 0 THEN 1 ELSE 10 * Pow10(n - 1)

FZero == FNorm(0, 0)
FOne == FNorm(1, 0)
FNeg(a) == [m |-> -a.m, e |-> a.e]
FMul(a, b) == FNorm(a.m * b.m, a.e + b.e)

\* a / b, b # 0
FDiv(a, b) ==
    LET n == IF b.m < 0 THEN -a.m ELSE a.m
    IN  FNorm(Quot(n * 100000, Abs(b.m)), a.e - b.e - 5)

\* a + b: an operand below a tenth of the other's last digit is absorbed
FAdd(a, b) ==
    IF a.m = 0 THEN b
    ELSE IF b.m = 0 THEN a
    ELSE LET hi == IF a.e >= b.e THEN a ELSE b
             lo == IF a.e >= b.e THEN b ELSE a
             d  == hi.e - lo.e
         IN  IF d > 4 THEN hi ELSE FNorm(hi.m * Pow10(d) + lo.m, lo.e)

FSub(a, b) == FAdd(a, FNeg(b))
FLt(a, b) == FSub(a, b).m < 0
FLe(a, b) == FSub(a, b).m <= 0
FMin(a, b) == IF FLt(a, b) THEN a ELSE b

\* the value of [m, e] in units of 10^u, truncated toward zero (as i32)
FToFix(a, u) ==
    IF a.e >= u THEN a.m * Pow10(a.e - u) ELSE Quot(a.m, Pow10(u - a.e))

\* std::f32::consts::PI
PI == FNorm(3142, -3)

(***************************************************************************)
(* InnerCore (inner_core.rs).  Units: radius_km in km, temperature_c in    *)
(* degrees, crystallization_rate_mm_per_year in 1/10 mm/yr, age_myr in     *)
(* 1/10 Myr, the three factors in 1/100, latent heat in TJ/yr; heat flux   *)
(* and mass in floating point.                                             *)
(***************************************************************************)
InnerCore_new ==
    [ radius_km |-> 1221, temperature_c |-> 5400,
      heat_flux_mw_per_m2 |-> FNorm(5, -2),
      crystallization_rate_mm_per_year |-> 10,
      mass_kg |-> FNorm(97, 21), age_myr |-> 10000,
      magnetic_contribution_factor |-> 90, crystal_anisotropy_factor |-> 50,
      latent_heat_release_tj_per_year |-> 50, asymmetric_growth_factor |-> 10 ]

\* Faulty variant of InnerCore_update_mass: the radius is cubed in km, not m.
InnerCore_update_mass_KmRadius(ic) ==
    LET radius_km == FNorm(ic.radius_km, 0)
        cube      == FMul(FMul(radius_km, radius_km), radius_km)
        volume    == FMul(FMul(FDiv(FNorm(4, 0), FNorm(3, 0)), PI), cube)
        density   == FNorm(12800, 0)
    IN  [ic EXCEPT !.mass_kg = FMul(volume, density)]

\* mass = (4/3) * PI * (radius_km * 1000)^3 * 12800
InnerCore_update_mass(ic) ==
    LET radius_m  == FNorm(ic.radius_km, 3)
        cube      == FMul(FMul(radius_m, radius_m), radius_m)
        volume_m3 == FMul(FMul(FDiv(FNorm(4, 0), FNorm(3, 0)), PI), cube)
        density   == FNorm(12800, 0)
    IN  [ic EXCEPT !.mass_kg = FMul(volume_m3, density)]

\* heat flux = (k * (temperature_c - 4300) / (4 * PI * radius_m^2)) * 1e-6
InnerCore_update_heat_flux(ic) ==
    LET radius_m == FNorm(ic.radius_km, 3)
        area_m2  == FMul(FMul(FNorm(4, 0), PI), FMul(radius_m, radius_m))
        delta_t  == FNorm(ic.temperature_c - 4300, 0)
        k        == FNorm(1, 6)
    IN  [ic EXCEPT !.heat_flux_mw_per_m2 =
               FMul(FDiv(FMul(k, delta_t), area_m2), FNorm(1, -6))]

\* growth_km = (crystallization_rate_mm_per_year * years) / 1_000_000
InnerCore_growth_km(ic, years) ==
    Quot(ic.crystallization_rate_mm_per_year * Quot(years, 1000), 10000)

\* Faulty variant of InnerCore_update_crystallization: mass and heat flux are
\* recomputed before the radius grows.
InnerCore_update_crystallization_MassFirst(ic, years) ==
    LET fluxd == InnerCore_update_heat_flux(InnerCore_update_mass(ic))
    IN  [fluxd EXCEPT !.age_myr = @ + Quot(years, 100000),
                      !.radius_km = @ + InnerCore_growth_km(ic, years),
                      !.latent_heat_release_tj_per_year =
                          Quot(ic.crystallization_rate_mm_per_year * 50, 10)]

InnerCore_update_crystallization(ic, years) ==
    LET aged  == [ic EXCEPT !.age_myr = @ + Quot(years, 100000),
                            !.radius_km = @ + InnerCore_growth_km(ic, years)]
        fluxd == InnerCore_update_heat_flux(InnerCore_update_mass(aged))
    IN  [fluxd EXCEPT !.latent_heat_release_tj_per_year =
               Quot(ic.crystallization_rate_mm_per_year * 50, 10)]

InnerCore_update_anisotropy(ic, delta) ==
    [ic EXCEPT !.crystal_anisotropy_factor = Clamp(@ + delta, 0, 100)]

InnerCore_adjust_asymmetry(ic, delta) ==
    [ic EXCEPT !.asymmetric_growth_factor = Clamp(@ + delta, 0, 100)]

InnerCore_adjust_magnetic_contribution(ic, delta) ==
    [ic EXCEPT !.magnetic_contribution_factor = Clamp(@ + delta, 0, 100)]

InnerCore_reset_magnetic_contribution(ic, new_value) ==
    [ic EXCEPT !.magnetic_contribution_factor = Clamp(new_value, 0, 100)]

(***************************************************************************)
(* OuterCore (outer_core.rs).  Units: light_elements_enrichment in 1/100 %,*)
(* total_time_myr in 1/10 Myr; strengths, flow factors, heat fluxes and    *)
(* the cumulative heat in floating point.  The two random::<f32>() draws   *)
(* are the parameters reversal_draw (the draw is below 0.05) and           *)
(* anomaly_draw (the draw is below 0.1).                                   *)
(***************************************************************************)
\* Faulty variant of OuterCore_convection: the heat flux is divided by 0.01.
OuterCore_convection_PerHundredth(heat_flux) ==
    FMin(FDiv(heat_flux, FNorm(1, -2)), FOne)

\* convection_strength = (heat_flux_mw_per_m2 / 0.1).min(1.0)
OuterCore_convection(heat_flux) == FMin(FDiv(heat_flux, FNorm(1, -1)), FOne)

OuterCore_new(inner_core) ==
    LET convection_strength == OuterCore_convection(inner_core.heat_flux_mw_per_m2)
    IN  [ light_elements_enrichment |-> 0,
          convection_strength |-> convection_strength,
          magnetic_field_strength |->
              FMul(convection_strength,
                   FNorm(inner_core.magnetic_contribution_factor, -2)),
          heat_flux_from_inner_mw_per_m2 |-> inner_core.heat_flux_mw_per_m2,
          heat_flux_to_mantle_mw_per_m2 |-> FNorm(4, -2),
          total_time_myr |-> 0,
          magnetic_polarity_normal |-> TRUE,
          toroidal_flow_factor |-> FMul(convection_strength, FNorm(7, -1)),
          poloidal_flow_factor |-> FMul(convection_strength, FNorm(3, -1)),
          has_heat_anomaly |-> FALSE,
          cumulative_heat_to_mantle_tj |-> FZero ]

\* Faulty variant of OuterCore_enrich_light_elements: only the ceiling is applied.
OuterCore_enrich_light_elements_NoFloor(o, delta) ==
    [o EXCEPT !.light_elements_enrichment = Min(@ + delta, 10000)]

OuterCore_enrich_light_elements(o, delta) ==
    [o EXCEPT !.light_elements_enrichment = Clamp(@ + delta, 0, 10000)]

\* Faulty variant of OuterCore_maybe_trigger_reversal: the draw alone decides,
\* whatever the magnetic field strength.
OuterCore_maybe_trigger_reversal_Unguarded(o, reversal_draw) ==
    IF reversal_draw
    THEN [o EXCEPT !.magnetic_polarity_normal = ~@]
    ELSE o

OuterCore_maybe_trigger_reversal(o, reversal_draw) ==
    IF FLt(o.magnetic_field_strength, FNorm(3, -1)) /\ reversal_draw
    THEN [o EXCEPT !.magnetic_polarity_normal = ~@]
    ELSE o

\* Faulty variant of OuterCore_maybe_generate_heat_anomaly: the flag follows
\* the current step's check instead of latching.
OuterCore_maybe_generate_heat_anomaly_Unlatched(o, anomaly_draw) ==
    [o EXCEPT !.has_heat_anomaly =
         FLt(FNorm(8, -1), o.convection_strength) /\ anomaly_draw]

OuterCore_maybe_generate_heat_anomaly(o, anomaly_draw) ==
    IF FLt(FNorm(8, -1), o.convection_strength) /\ anomaly_draw
    THEN [o EXCEPT !.has_heat_anomaly = TRUE]
    ELSE o

\* heat_per_year_tj = flux * 1e6 * 3.1536e7 / 1e12, accumulated over years
OuterCore_transfer_heat_to_mantle(o, years) ==
    LET flux == FMul(o.convection_strength, FNorm(6, -2))
        heat_per_year_tj ==
            FDiv(FMul(FMul(flux, FNorm(1, 6)), FNorm(31536, 3)), FNorm(1, 12))
    IN  [o EXCEPT !.heat_flux_to_mantle_mw_per_m2 = flux,
                  !.cumulative_heat_to_mantle_tj =
                      FAdd(@, FMul(heat_per_year_tj, FNorm(years, 0)))]

\* enrichment_delta = (crystallization_rate_mm_per_year * years * 0.00001).min(1.0)
OuterCore_enrichment_delta(inner_core, years) ==
    Min(Quot(inner_core.crystallization_rate_mm_per_year * Quot(years, 1000), 10),
        100)

\* Faulty variant of OuterCore_update_dynamics: the dampening is applied to
\* the convection strength the object held, not to the re-derived one.
OuterCore_update_dynamics_Compounding(o, inner_core, years, reversal_draw, anomaly_draw) ==
    LET o1 == [o EXCEPT
                 !.total_time_myr = @ + Quot(years, 100000),
                 !.heat_flux_from_inner_mw_per_m2 = inner_core.heat_flux_mw_per_m2]
        o2 == OuterCore_enrich_light_elements(
                  o1, OuterCore_enrichment_delta(inner_core, years))
        o3 == IF o2.light_elements_enrichment > 3000
              THEN [o2 EXCEPT !.convection_strength = FMul(@, FNorm(95, -2))]
              ELSE [o2 EXCEPT !.convection_strength =
                        OuterCore_convection(inner_core.heat_flux_mw_per_m2)]
        o4 == [o3 EXCEPT
                 !.magnetic_field_strength =
                     FMul(o3.convection_strength,
                          FNorm(inner_core.magnetic_contribution_factor, -2)),
                 !.toroidal_flow_factor = FMul(o3.convection_strength, FNorm(7, -1)),
                 !.poloidal_flow_factor = FMul(o3.convection_strength, FNorm(3, -1))]
        o5 == OuterCore_maybe_trigger_reversal(o4, reversal_draw)
        o6 == OuterCore_maybe_generate_heat_anomaly(o5, anomaly_draw)
    IN  OuterCore_transfer_heat_to_mantle(o6, years)

OuterCore_update_dynamics(o, inner_core, years, reversal_draw, anomaly_draw) ==
    LET o1 == [o EXCEPT
                 !.total_time_myr = @ + Quot(years, 100000),
                 !.heat_flux_from_inner_mw_per_m2 = inner_core.heat_flux_mw_per_m2,
                 !.convection_strength =
                     OuterCore_convection(inner_core.heat_flux_mw_per_m2)]
        o2 == OuterCore_enrich_light_elements(
                  o1, OuterCore_enrichment_delta(inner_core, years))
        o3 == IF o2.light_elements_enrichment > 3000
              THEN [o2 EXCEPT !.convection_strength = FMul(@, FNorm(95, -2))]
              ELSE o2
        o4 == [o3 EXCEPT
                 !.magnetic_field_strength =
                     FMul(o3.convection_strength,
                          FNorm(inner_core.magnetic_contribution_factor, -2)),
                 !.toroidal_flow_factor = FMul(o3.convection_strength, FNorm(7, -1)),
                 !.poloidal_flow_factor = FMul(o3.convection_strength, FNorm(3, -1))]
        o5 == OuterCore_maybe_trigger_reversal(o4, reversal_draw)
        o6 == OuterCore_maybe_generate_heat_anomaly(o5, anomaly_draw)
    IN  OuterCore_transfer_heat_to_mantle(o6, years)

(***************************************************************************)
(* Plate (mantle.rs).  Units: area_km2 in km^2, age_myr in 1/10 Myr (the   *)
(* per-call increment 0.1 is one unit), velocities, flow rates and the     *)
(* back-arc rate in 1/100 cm/yr, directions in 1/100 degree,               *)
(* shear_stress_mpa in MPa, volcanic_activity_factor in 1/10, slab volume  *)
(* in km^3, deep_convection_strength in 1/100.                             *)
(***************************************************************************)
\* Faulty variant of LowerMantle_mix_composition: the strength is not clamped.
LowerMantle_mix_composition_NoCap(lm, slab_input_km3) ==
    [lm EXCEPT !.stored_slab_volume_km3 = @ + slab_input_km3,
               !.deep_convection_strength = @ + 1]

LowerMantle_mix_composition(lm, slab_input_km3) ==
    LET d == lm.deep_convection_strength + 1
    IN  [lm EXCEPT !.stored_slab_volume_km3 = @ + slab_input_km3,
                   !.deep_convection_strength = IF d > 100 THEN 100 ELSE d]

LowerMantle_update_lateral_flow(lm) ==
    [lm EXCEPT
       !.lateral_flow_rate_cm_per_year = Min(lm.deep_convection_strength * 5, 1000),
       !.dominant_flow_direction_deg =
           Rem(@ + lm.deep_convection_strength * 3, 36000)]

Asthenosphere_update_lateral_flow(a, core_influence) ==
    [a EXCEPT
       !.lateral_flow_rate_cm_per_year = Min(core_influence * 10, 2000),
       !.dominant_flow_direction_deg = Rem(@ + core_influence * 5, 36000)]

\* D''Layer: heat fluxes in floating point, temperature_c in 1/10000 degree
DPrimePrimeLayer_transfer_heat(d, incoming_flux, outgoing_flux) ==
    [d EXCEPT
       !.heat_flux_in = incoming_flux,
       !.heat_flux_out = outgoing_flux,
       !.temperature_c =
           @ + FToFix(FMul(FSub(incoming_flux, outgoing_flux), FNorm(8, 0)), -4)]

\* Faulty variant of Plate_spread: the age is not reset.
Plate_spread_KeepsAge(p, growth_rate_km2) ==
    [plate |-> [p EXCEPT !.area_km2 = @ + growth_rate_km2],
     ret |-> growth_rate_km2]

Plate_spread(p, growth_rate_km2) ==
    [plate |-> [p EXCEPT !.area_km2 = @ + growth_rate_km2, !.age_myr = 0],
     ret |-> growth_rate_km2]

\* Faulty variant of Plate_simulate_transform: the fault slips when the
\* stress reaches the threshold, not when it exceeds it.
Plate_simulate_transform_AtThreshold(p) ==
    IF p.is_transform_boundary
    THEN LET s == p.shear_stress_mpa + 5
         IN  IF s >= 300
             THEN [plate |-> [p EXCEPT !.shear_stress_mpa = 0], ret |-> TRUE]
             ELSE [plate |-> [p EXCEPT !.shear_stress_mpa = s], ret |-> FALSE]
    ELSE [plate |-> p, ret |-> FALSE]

Plate_simulate_transform(p) ==
    IF p.is_transform_boundary
    THEN LET s == p.shear_stress_mpa + 5
         IN  IF s > 300
             THEN [plate |-> [p EXCEPT !.shear_stress_mpa = 0], ret |-> TRUE]
             ELSE [plate |-> [p EXCEPT !.shear_stress_mpa = s], ret |-> FALSE]
    ELSE [plate |-> p, ret |-> FALSE]

\* added_area = back_arc_spreading_rate_cm_per_year * 1000
Plate_simulate_back_arc_spreading(p) ==
    IF p.has_back_arc_spreading
    THEN LET added_area == p.back_arc_spreading_rate_cm_per_year * 10
         IN  [plate |-> [p EXCEPT !.area_km2 = @ + added_area], ret |-> added_area]
    ELSE [plate |-> p, ret |-> 0]

\* Faulty variant of Plate_subduction_check: the flag is recomputed from the
\* age on every call instead of being set once.
Plate_subduction_check_Recomputed(p) ==
    [plate |-> [p EXCEPT !.is_subducting = (p.age_myr > 1000)],
     ret |-> (p.age_myr > 1000 /\ ~p.is_subducting)]

\* Faulty variant of Plate_subduction_check: the onset is signalled in every
\* call that finds the age above the threshold.
Plate_subduction_check_SignalsAgain(p) ==
    IF p.age_myr > 1000
    THEN [plate |-> [p EXCEPT !.is_subducting = TRUE], ret |-> TRUE]
    ELSE [plate |-> p, ret |-> FALSE]

\* Faulty variant of Plate_subduction_check: subduction starts when the age
\* reaches the threshold, not when it exceeds it.
Plate_subduction_check_AtAge(p) ==
    IF p.age_myr >= 1000 /\ ~p.is_subducting
    THEN [plate |-> [p EXCEPT !.is_subducting = TRUE], ret |-> TRUE]
    ELSE [plate |-> p, ret |-> FALSE]

\* mantle.rs lines 22-26: the one-shot subduction transition of update_motion
Plate_subduction_check(p) ==
    IF p.age_myr > 1000 /\ ~p.is_subducting
    THEN [plate |-> [p EXCEPT !.is_subducting = TRUE], ret |-> TRUE]
    ELSE [plate |-> p, ret |-> FALSE]

\* Faulty variant of Plate_update_motion: the age is incremented at the end
\* of the call, after the spreading check.
Plate_update_motion_AgesLast(p, mantle_flow_rate, mantle_direction) ==
    LET p1 == [p EXCEPT
                 !.velocity_cm_per_year = mantle_flow_rate + Quot(@, 10),
                 !.motion_direction_deg =
                     Rem(@ + Quot(mantle_direction * 5, 100), 36000)]
        sub == Plate_subduction_check(p1)
        spr == IF sub.plate.age_myr < 200
               THEN Plate_spread(sub.plate, 10000)
               ELSE [plate |-> sub.plate, ret |-> 0]
        tra == Plate_simulate_transform(spr.plate)
        bar == Plate_simulate_back_arc_spreading(tra.plate)
    IN  [plate |-> [bar.plate EXCEPT !.age_myr = @ + 1],
         started_subduction |-> sub.ret,
         spread_area |-> spr.ret, back_arc_area |-> bar.ret,
         earthquake_occurred |-> tra.ret]

Plate_update_motion(p, mantle_flow_rate, mantle_direction) ==
    LET p1 == [p EXCEPT
                 !.velocity_cm_per_year = mantle_flow_rate + Quot(@, 10),
                 !.motion_direction_deg =
                     Rem(@ + Quot(mantle_direction * 5, 100), 36000),
                 !.age_myr = @ + 1]
        sub == Plate_subduction_check(p1)
        spr == IF sub.plate.age_myr < 200
               THEN Plate_spread(sub.plate, 10000)
               ELSE [plate |-> sub.plate, ret |-> 0]
        tra == Plate_simulate_transform(spr.plate)
        bar == Plate_simulate_back_arc_spreading(tra.plate)
    IN  [plate |-> bar.plate, started_subduction |-> sub.ret,
         spread_area |-> spr.ret, back_arc_area |-> bar.ret,
         earthquake_occurred |-> tra.ret]

\* Faulty variant of Plate_subduct: the plate recycles whether or not it is
\* subducting.
Plate_subduct_Unconditional(p, lm) ==
    LET recycled_volume == Quot(p.area_km2, 100)
    IN  [plate |-> [p EXCEPT !.area_km2 = @ - Quot(@, 100)],
         lower_mantle |-> LowerMantle_mix_composition(lm, recycled_volume),
         ret |-> recycled_volume]

\* the plate and the lower mantle after subduct, and the recycled volume
Plate_subduct(p, lm) ==
    IF p.is_subducting
    THEN LET recycled_volume == Quot(p.area_km2, 100)
         IN  [plate |-> [p EXCEPT !.area_km2 = @ - Quot(@, 100)],
              lower_mantle |-> LowerMantle_mix_composition(lm, recycled_volume),
              ret |-> recycled_volume]
    ELSE [plate |-> p, lower_mantle |-> lm, ret |-> 0]

(***************************************************************************)
(* HotSpot (mantle.rs).  Units: lat_deg and lon_deg in 1/100 degree,       *)
(* surface_age_myr in 1/10 Myr.  to_radians().sin() and .cos() are         *)
(* computed in 1/10000 by Bhaskara's rational approximation on whole       *)
(* degrees.                                                                *)
(***************************************************************************)
SinHalfTurn(r) == LET p == r * (180 - r) IN Quot(40000 * p, 40500 - p)

SinDeg(direction_deg) ==
    LET r == Quot(direction_deg, 100) % 360
    IN  IF r <= 180 THEN SinHalfTurn(r) ELSE -SinHalfTurn(r - 180)

CosDeg(direction_deg) == SinDeg(direction_deg + 9000)

HotSpot_migrate(h, mantle_flow_rate, flow_direction_deg) ==
    LET lat  == h.lat_deg
                  + Quot(Quot(mantle_flow_rate, 10) * SinDeg(flow_direction_deg), 10000)
        lon  == h.lon_deg
                  + Quot(Quot(mantle_flow_rate, 10) * CosDeg(flow_direction_deg), 10000)
        lat1 == IF lat > 9000 THEN 9000 ELSE lat
        lat2 == IF lat1 < -9000 THEN -9000 ELSE lat1
        lon1 == IF lon > 18000 THEN lon - 36000 ELSE lon
        lon2 == IF lon1 < -18000 THEN lon1 + 36000 ELSE lon1
    IN  [h EXCEPT !.lat_deg = lat2, !.lon_deg = lon2, !.surface_age_myr = @ + 1]

(***************************************************************************)
(* Mantle (mantle.rs).  Lithosphere and TransitionZone have no operation   *)
(* and are left out.                                                       *)
(***************************************************************************)
Mantle_new ==
    [ asthenosphere |->
          [lateral_flow_rate_cm_per_year |-> 500,
           dominant_flow_direction_deg |-> 9000],
      lower_mantle |->
          [deep_convection_strength |-> 60, stored_slab_volume_km3 |-> 0,
           lateral_flow_rate_cm_per_year |-> 200,
           dominant_flow_direction_deg |-> 6000],
      d_prime_prime |->
          [temperature_c |-> 30000000, heat_flux_in |-> FNorm(15, -3),
           heat_flux_out |-> FNorm(2, -2)],
      plates |-> << >>,
      hot_spots |-> << >>,
      crust |-> Crust_new("continental").value ]

\* Faulty variant of Mantle_plate_iteration: the crust is deformed and capped
\* before the plate's volcanism grows it.
Mantle_plate_iteration_GrowsLast(acc, plate, a) ==
    LET um == Plate_update_motion(plate, a.lateral_flow_rate_cm_per_year,
                                  a.dominant_flow_direction_deg)
        sd == Plate_subduct(um.plate, acc.lower_mantle)
        volcanic == sd.plate.volcanic_activity_factor > 5
        c1 == Crust_update_tectonics(acc.crust, sd.plate.velocity_cm_per_year)
        c2 == IF volcanic THEN Crust_grow_by_volcanism(c1, 500) ELSE c1
    IN  [ plates |-> Append(acc.plates, sd.plate),
          lower_mantle |-> sd.lower_mantle,
          crust |-> c2,
          subduction_events |->
              acc.subduction_events + (IF um.started_subduction THEN 1 ELSE 0),
          earthquake_events |->
              acc.earthquake_events + (IF um.earthquake_occurred THEN 1 ELSE 0),
          total_subduction_volume |-> acc.total_subduction_volume + sd.ret,
          total_spread_area |-> acc.total_spread_area + um.spread_area,
          total_back_arc_area |-> acc.total_back_arc_area + um.back_arc_area,
          total_volcanic_growth |->
              acc.total_volcanic_growth
                + (IF volcanic THEN Crust_added_thickness(500) ELSE 0),
          total_tectonic_deformation |->
              acc.total_tectonic_deformation
                + Crust_deformation(acc.crust, sd.plate.velocity_cm_per_year) ]

\* one iteration of the plate loop of update_advanced_dynamics (lines 294-315)
Mantle_plate_iteration(acc, plate, a) ==
    LET um == Plate_update_motion(plate, a.lateral_flow_rate_cm_per_year,
                                  a.dominant_flow_direction_deg)
        sd == Plate_subduct(um.plate, acc.lower_mantle)
        volcanic == sd.plate.volcanic_activity_factor > 5
        c1 == IF volcanic THEN Crust_grow_by_volcanism(acc.crust, 500)
              ELSE acc.crust
        c2 == Crust_update_tectonics(c1, sd.plate.velocity_cm_per_year)
    IN  [ plates |-> Append(acc.plates, sd.plate),
          lower_mantle |-> sd.lower_mantle,
          crust |-> c2,
          subduction_events |->
              acc.subduction_events + (IF um.started_subduction THEN 1 ELSE 0),
          earthquake_events |->
              acc.earthquake_events + (IF um.earthquake_occurred THEN 1 ELSE 0),
          total_subduction_volume |-> acc.total_subduction_volume + sd.ret,
          total_spread_area |-> acc.total_spread_area + um.spread_area,
          total_back_arc_area |-> acc.total_back_arc_area + um.back_arc_area,
          total_volcanic_growth |->
              acc.total_volcanic_growth
                + (IF volcanic THEN Crust_added_thickness(500) ELSE 0),
          total_tectonic_deformation |->
              acc.total_tectonic_deformation
                + Crust_deformation(c1, sd.plate.velocity_cm_per_year) ]

RECURSIVE Mantle_plate_loop(_, _, _, _)
Mantle_plate_loop(acc, plates, i, a) ==
    IF i > Len(plates) THEN acc
    ELSE Mantle_plate_loop(Mantle_plate_iteration(acc, plates[i], a), plates, i + 1, a)

\* the mantle after update_advanced_dynamics(years), and the aggregates it reports
Mantle_update_advanced_dynamics(m, years) ==
    LET lm1 == LowerMantle_update_lateral_flow(m.lower_mantle)
        as1 == Asthenosphere_update_lateral_flow(m.asthenosphere,
                                                 lm1.deep_convection_strength)
        acc0 == [ plates |-> << >>, lower_mantle |-> lm1, crust |-> m.crust,
                  subduction_events |-> 0, earthquake_events |-> 0,
                  total_subduction_volume |-> 0, total_spread_area |-> 0,
                  total_back_arc_area |-> 0, total_volcanic_growth |-> 0,
                  total_tectonic_deformation |-> 0 ]
        acc == Mantle_plate_loop(acc0, m.plates, 1, as1)
        hs  == [i \in 1..Len(m.hot_spots) |->
                   HotSpot_migrate(m.hot_spots[i], as1.lateral_flow_rate_cm_per_year,
                                   as1.dominant_flow_direction_deg)]
    IN  [ mantle |-> [m EXCEPT !.lower_mantle = acc.lower_mantle,
                               !.asthenosphere = as1,
                               !.plates = acc.plates,
                               !.crust = Crust_erode(acc.crust, years),
                               !.hot_spots = hs],
          erosion_km |-> Crust_erosion_km(acc.crust, years),
          report |-> acc ]

(***************************************************************************)
(* main (main.rs): the scenario it builds and the step it simulates.       *)
(***************************************************************************)
MainPlate1 ==
    [ area_km2 |-> 100000000, age_myr |-> 500, velocity_cm_per_year |-> 500,
      motion_direction_deg |-> 9000, is_subducting |-> FALSE,
      is_transform_boundary |-> TRUE, shear_stress_mpa |-> 0,
      has_back_arc_spreading |-> TRUE,
      back_arc_spreading_rate_cm_per_year |-> 200,
      volcanic_activity_factor |-> 7 ]

MainPlate2 ==
    [ area_km2 |-> 60000000, age_myr |-> 100, velocity_cm_per_year |-> 300,
      motion_direction_deg |-> 4500, is_subducting |-> FALSE,
      is_transform_boundary |-> FALSE, shear_stress_mpa |-> 0,
      has_back_arc_spreading |-> FALSE,
      back_arc_spreading_rate_cm_per_year |-> 0,
      volcanic_activity_factor |-> 3 ]

MainHotSpot1 == [lat_deg |-> 0, lon_deg |-> -15500, surface_age_myr |-> 10]
MainHotSpot2 == [lat_deg |-> 2000, lon_deg |-> 12000, surface_age_myr |-> 5]

\* the state main holds before the simulation (lines 13-54)
Main_setup ==
    LET core == InnerCore_new
    IN  [ core |-> core, outer |-> OuterCore_new(core),
          mantle |-> [Mantle_new EXCEPT !.plates = <<MainPlate1, MainPlate2>>,
                                        !.hot_spots = <<MainHotSpot1, MainHotSpot2>>] ]

\* Faulty variant of Main_step: update_dynamics runs before
\* update_crystallization, so it reads the inner core as the step found it.
Main_step_DynamicsFirst(s, sim_years, reversal_draw, anomaly_draw) ==
    LET outer  == OuterCore_update_dynamics(s.outer, s.core, sim_years,
                                            reversal_draw, anomaly_draw)
        core   == InnerCore_update_crystallization(s.core, sim_years)
        mantle == Mantle_update_advanced_dynamics(s.mantle, sim_years).mantle
    IN  [ core |-> core, outer |-> outer,
          mantle |-> [mantle EXCEPT !.d_prime_prime =
                         DPrimePrimeLayer_transfer_heat(
                             @, outer.heat_flux_to_mantle_mw_per_m2, FNorm(2, -2))] ]

\* Faulty variant of Main_step: transfer_heat runs before update_dynamics, so
\* it is handed the mantle-bound flux of the step before.
Main_step_TransferFirst(s, sim_years, reversal_draw, anomaly_draw) ==
    LET core   == InnerCore_update_crystallization(s.core, sim_years)
        outer  == OuterCore_update_dynamics(s.outer, core, sim_years,
                                            reversal_draw, anomaly_draw)
        mantle == Mantle_update_advanced_dynamics(s.mantle, sim_years).mantle
    IN  [ core |-> core, outer |-> outer,
          mantle |-> [mantle EXCEPT !.d_prime_prime =
                         DPrimePrimeLayer_transfer_heat(
                             @, s.outer.heat_flux_to_mantle_mw_per_m2, FNorm(2, -2))] ]

\* the four calls of the simulated step (lines 64-67), in their order
Main_step(s, sim_years, reversal_draw, anomaly_draw) ==
    LET core   == InnerCore_update_crystallization(s.core, sim_years)
        outer  == OuterCore_update_dynamics(s.outer, core, sim_years,
                                            reversal_draw, anomaly_draw)
        mantle == Mantle_update_advanced_dynamics(s.mantle, sim_years).mantle
    IN  [ core |-> core, outer |-> outer,
          mantle |-> [mantle EXCEPT !.d_prime_prime =
                         DPrimePrimeLayer_transfer_heat(
                             @, outer.heat_flux_to_mantle_mw_per_m2, FNorm(2, -2))] ]

(***************************************************************************)
(* State.  crust is a Crust a caller constructs on its own (crust_result   *)
(* tells how Crust::new ended: "none" before the call, "ok", or "panic",   *)
(* after which the thread is gone and nothing more runs); mantle, core and *)
(* outer are the objects main holds.  last is a history variable: the last *)
(* call, its arguments and what the objects held before it; calls counts   *)
(* the calls made.                                                         *)
(***************************************************************************)
VARIABLES crust, crust_result, mantle, core, outer, last, calls

vars == <<crust, crust_result, mantle, core, outer, last, calls>>

NoCall == [op |-> "none"]

(***************************************************************************)
(* Arguments the callers draw.                                             *)
(***************************************************************************)
CrustTypeArgs == {"continental", "oceanic", "invalid", ""}
MagmaArgs == {500, 40000000}
ErodeYearsArgs == {1000000, 300000000}
VelocityArgs == {500, 1000000}
VegetationArgs == {-2000, -255, 100, 755, 3000}

(***************************************************************************)
(* SpecCrust: a caller constructs a Crust and calls its operations.        *)
(***************************************************************************)
InitCrust ==
    /\ crust = NoCrust
    /\ crust_result = "none"
    /\ mantle = Mantle_new
    /\ core = InnerCore_new
    /\ outer = OuterCore_new(InnerCore_new)
    /\ last = NoCall
    /\ calls = 0

CallCrustNew ==
    /\ crust_result = "none"
    /\ \E type_name \in CrustTypeArgs :
         LET r == Crust_new(type_name)
         IN  /\ crust' = r.value
             /\ crust_result' = IF r.panic THEN "panic" ELSE "ok"
             /\ last' = [op |-> "Crust::new", type_name |-> type_name]
    /\ UNCHANGED <<mantle, core, outer, calls>>

CrustCall(op, arg, c) ==
    /\ crust_result = "ok"
    /\ calls < MaxCalls
    /\ crust' = c
    /\ last' = [op |-> op, arg |-> arg, before |-> crust]
    /\ calls' = calls + 1
    /\ UNCHANGED <<crust_result, mantle, core, outer>>

CallGrowByVolcanism ==
    \E magma \in MagmaArgs :
        CrustCall("grow_by_volcanism", magma, Crust_grow_by_volcanism(crust, magma))

CallErode ==
    \E years \in ErodeYearsArgs :
        CrustCall("erode", years, Crust_erode(crust, years))

CallUpdateTectonics ==
    \E v \in VelocityArgs :
        CrustCall("update_tectonics", v, Crust_update_tectonics(crust, v))

CallUpdateVegetation ==
    \E change_pct \in VegetationArgs :
        CrustCall("update_vegetation", change_pct,
                  Crust_update_vegetation(crust, change_pct))

NextCrust ==
    \/ CallCrustNew
    \/ CallGrowByVolcanism
    \/ CallErode
    \/ CallUpdateTectonics
    \/ CallUpdateVegetation

SpecCrust == InitCrust /\ [][NextCrust]_vars

(***************************************************************************)
(* SpecMantle: a caller holds a Mantle with one plate and calls the        *)
(* operations of Plate, LowerMantle and Asthenosphere one by one.  The     *)
(* plate is a struct literal of the caller's (as in main.rs): main's two   *)
(* plates, and plates one or two calls away from the spreading and the     *)
(* subduction thresholds.                                                  *)
(***************************************************************************)
PlateInits ==
    {MainPlate1, MainPlate2}
      \cup {[MainPlate1 EXCEPT !.age_myr = a, !.motion_direction_deg = 0] :
               a \in {198, 999}}

FlowRateArgs == {600}
DirectionArgs == {-9000, 9300, 720000}
CoreInfluenceArgs == {-600, 60, 100}
SpreadArgs == {10000}
SlabArgs == {1000000}

InitMantle ==
    /\ crust = NoCrust
    /\ crust_result = "none"
    /\ \E p \in PlateInits : mantle = [Mantle_new EXCEPT !.plates = <<p>>]
    /\ core = InnerCore_new
    /\ outer = OuterCore_new(InnerCore_new)
    /\ last = NoCall
    /\ calls = 0

MantleCall(op, arg, ret, m) ==
    /\ calls < MaxCalls
    /\ mantle' = m
    /\ last' = [op |-> op, arg |-> arg, ret |-> ret, before |-> mantle]
    /\ calls' = calls + 1
    /\ UNCHANGED <<crust, crust_result, core, outer>>

CallUpdateMotion ==
    \E flow \in FlowRateArgs, dir \in DirectionArgs :
        LET r == Plate_update_motion(mantle.plates[1], flow, dir)
        IN  MantleCall("update_motion", <<flow, dir>>, r,
                       [mantle EXCEPT !.plates[1] = r.plate])

CallSubduct ==
    LET r == Plate_subduct(mantle.plates[1], mantle.lower_mantle)
    IN  MantleCall("subduct", <<>>, r.ret,
                   [mantle EXCEPT !.plates[1] = r.plate,
                                  !.lower_mantle = r.lower_mantle])

CallSpread ==
    \E g \in SpreadArgs :
        LET r == Plate_spread(mantle.plates[1], g)
        IN  MantleCall("spread", g, r.ret, [mantle EXCEPT !.plates[1] = r.plate])

CallSimulateTransform ==
    LET r == Plate_simulate_transform(mantle.plates[1])
    IN  MantleCall("simulate_transform", <<>>, r.ret,
                   [mantle EXCEPT !.plates[1] = r.plate])

CallSimulateBackArcSpreading ==
    LET r == Plate_simulate_back_arc_spreading(mantle.plates[1])
    IN  MantleCall("simulate_back_arc_spreading", <<>>, r.ret,
                   [mantle EXCEPT !.plates[1] = r.plate])

CallMixComposition ==
    \E slab \in SlabArgs :
        MantleCall("mix_composition", slab, 0,
                   [mantle EXCEPT !.lower_mantle =
                        LowerMantle_mix_composition(@, slab)])

CallLowerMantleLateralFlow ==
    MantleCall("LowerMantle::update_lateral_flow", <<>>, 0,
               [mantle EXCEPT !.lower_mantle = LowerMantle_update_lateral_flow(@)])

CallAsthenosphereLateralFlow ==
    \E ci \in CoreInfluenceArgs :
        MantleCall("Asthenosphere::update_lateral_flow", ci, 0,
                   [mantle EXCEPT !.asthenosphere =
                        Asthenosphere_update_lateral_flow(@, ci)])

NextMantle ==
    \/ CallUpdateMotion
    \/ CallSubduct
    \/ CallSpread
    \/ CallSimulateTransform
    \/ CallSimulateBackArcSpreading
    \/ CallMixComposition
    \/ CallLowerMantleLateralFlow
    \/ CallAsthenosphereLateralFlow

SpecMantle == InitMantle /\ [][NextMantle]_vars

(***************************************************************************)
(* SpecCore: a caller holds an InnerCore and an OuterCore and calls their  *)
(* operations one by one.  Construction comes first: main's                *)
(* OuterCore::new(&core), or, as the first call, an OuterCore::new over    *)
(* another inner core; after that the same object is used throughout.      *)
(* OuterCore::new and update_dynamics take any                             *)
(* &InnerCore, and InnerCore's fields are public: the caller passes its    *)
(* inner core as it is, or with heat_flux_mw_per_m2 set to one of          *)
(* HeatFluxArgs (-0.05, 0.2).                                              *)
(***************************************************************************)
HeatFluxArgs == {FNorm(-5, -2), FNorm(2, -1)}

InnerCoreArgs(ic) ==
    {ic} \cup {[ic EXCEPT !.heat_flux_mw_per_m2 = f] : f \in HeatFluxArgs}

CrystallizationYearsArgs == {0, 10000000}
DynamicsYearsArgs == {0, 10000000}
FactorArgs == {-150, 30, 250}
ResetArgs == {-20, 130}
EnrichmentArgs == {-50000, 3100, 15000}

InitCore ==
    /\ crust = NoCrust
    /\ crust_result = "none"
    /\ mantle = Mantle_new
    /\ core = InnerCore_new
    /\ outer = OuterCore_new(InnerCore_new)
    /\ last = NoCall
    /\ calls = 0

InnerCoreCall(op, arg, ic) ==
    /\ calls < MaxCoreCalls
    /\ core' = ic
    /\ last' = [op |-> op, arg |-> arg]
    /\ calls' = calls + 1
    /\ UNCHANGED <<crust, crust_result, mantle, outer>>

OuterCoreCall(op, arg, o) ==
    /\ calls < MaxCoreCalls
    /\ outer' = o
    /\ last' = [op |-> op, arg |-> arg]
    /\ calls' = calls + 1
    /\ UNCHANGED <<crust, crust_result, mantle, core>>

CallOuterCoreNew ==
    /\ calls = 0
    /\ \E ic \in InnerCoreArgs(core) :
        OuterCoreCall("OuterCore::new", [inner_core |-> ic], OuterCore_new(ic))

CallUpdateCrystallization ==
    \E years \in CrystallizationYearsArgs :
        InnerCoreCall("update_crystallization", years,
                      InnerCore_update_crystallization(core, years))

CallUpdateAnisotropy ==
    \E delta \in FactorArgs :
        InnerCoreCall("update_anisotropy", delta,
                      InnerCore_update_anisotropy(core, delta))

CallAdjustAsymmetry ==
    \E delta \in FactorArgs :
        InnerCoreCall("adjust_asymmetry", delta,
                      InnerCore_adjust_asymmetry(core, delta))

CallAdjustMagneticContribution ==
    \E delta \in FactorArgs :
        InnerCoreCall("adjust_magnetic_contribution", delta,
                      InnerCore_adjust_magnetic_contribution(core, delta))

CallResetMagneticContribution ==
    \E new_value \in ResetArgs :
        InnerCoreCall("reset_magnetic_contribution", new_value,
                      InnerCore_reset_magnetic_contribution(core, new_value))

CallUpdateDynamics ==
    \E ic \in InnerCoreArgs(core), years \in DynamicsYearsArgs,
       reversal_draw \in BOOLEAN, anomaly_draw \in BOOLEAN :
        OuterCoreCall("update_dynamics",
                      [inner_core |-> ic, years |-> years,
                       reversal_draw |-> reversal_draw,
                       anomaly_draw |-> anomaly_draw],
                      OuterCore_update_dynamics(outer, ic, years,
                                                reversal_draw, anomaly_draw))

CallEnrichLightElements ==
    \E delta \in EnrichmentArgs :
        OuterCoreCall("enrich_light_elements", delta,
                      OuterCore_enrich_light_elements(outer, delta))

NextCore ==
    \/ CallOuterCoreNew
    \/ CallUpdateCrystallization
    \/ CallUpdateAnisotropy
    \/ CallAdjustAsymmetry
    \/ CallAdjustMagneticContribution
    \/ CallResetMagneticContribution
    \/ CallUpdateDynamics
    \/ CallEnrichLightElements

SpecCore == InitCore /\ [][NextCore]_vars

(***************************************************************************)
(* SpecSim: main.  It builds its scenario and simulates; the model lets it *)
(* repeat the step up to MaxSteps times with the years of SimYearsArgs.    *)
(***************************************************************************)
SimYearsArgs == {0, 1000000, 10000000}

InitSim ==
    /\ crust = NoCrust
    /\ crust_result = "none"
    /\ mantle = Main_setup.mantle
    /\ core = Main_setup.core
    /\ outer = Main_setup.outer
    /\ last = NoCall
    /\ calls = 0

SimulateStep ==
    /\ calls < MaxSteps
    /\ \E sim_years \in SimYearsArgs, reversal_draw \in BOOLEAN,
          anomaly_draw \in BOOLEAN :
         LET s == Main_step([core |-> core, outer |-> outer, mantle |-> mantle],
                            sim_years, reversal_draw, anomaly_draw)
         IN  /\ core' = s.core
             /\ outer' = s.outer
             /\ mantle' = s.mantle
             /\ last' = [op |-> "main_step", sim_years |-> sim_years,
                         core_before |-> core, outer_before |-> outer,
                         mantle_before |-> mantle]
    /\ calls' = calls + 1
    /\ UNCHANGED <<crust, crust_result>>

NextSim == SimulateStep

SpecSim == InitSim /\ [][NextSim]_vars

(***************************************************************************)
(* SpecCrustOps: a caller holds a constructed Crust and calls any of its   *)
(* operations, in any order.                                               *)
(***************************************************************************)
SedimentArgs == {-1000, 4000}
LoadChangeArgs == {2000}
ForcingArgs == {-150}

InitCrustOps ==
    /\ \E type_name \in {"continental", "oceanic"} :
         crust = Crust_new(type_name).value
    /\ crust_result = "ok"
    /\ mantle = Mantle_new
    /\ core = InnerCore_new
    /\ outer = OuterCore_new(InnerCore_new)
    /\ last = NoCall
    /\ calls = 0

CallRejuvenateSubduction ==
    CrustCall("rejuvenate_subduction", <<>>, Crust_rejuvenate_subduction(crust))

CallAdjustIsostasy ==
    \E load_change_km \in LoadChangeArgs :
        CrustCall("adjust_isostasy", load_change_km,
                  Crust_adjust_isostasy(crust, load_change_km))

CallUpdateSurfaceTemperature ==
    \E external_forcing \in ForcingArgs :
        CrustCall("update_surface_temperature", external_forcing,
                  Crust_update_surface_temperature(crust, external_forcing))

CallDepositSediment ==
    \E thickness_km \in SedimentArgs :
        CrustCall("deposit_sediment", thickness_km,
                  Crust_deposit_sediment(crust, thickness_km))

CallSimulateErosionFeedback ==
    CrustCall("simulate_erosion_feedback", <<>>,
              Crust_simulate_erosion_feedback(crust))

NextCrustOps ==
    \/ calls < MaxCrustCalls /\ CallGrowByVolcanism
    \/ calls < MaxCrustCalls /\ CallErode
    \/ calls < MaxCrustCalls /\ CallUpdateTectonics
    \/ calls < MaxCrustCalls /\ CallRejuvenateSubduction
    \/ calls < MaxCrustCalls /\ CallAdjustIsostasy
    \/ calls < MaxCrustCalls /\ CallUpdateSurfaceTemperature
    \/ calls < MaxCrustCalls /\ CallDepositSediment
    \/ calls < MaxCrustCalls /\ CallSimulateErosionFeedback
    \/ calls < MaxCrustCalls /\ CallUpdateVegetation

SpecCrustOps == InitCrustOps /\ [][NextCrustOps]_vars

(***************************************************************************)
(* SpecObjects: a caller holds a Crust, a Plate, two HotSpots and an       *)
(* InnerCore (main's, or the oceanic crust with main's second plate) and   *)
(* calls any operation of any of them.                                     *)
(***************************************************************************)
HotSpotFlowArgs == {500, 1000000}
HotSpotDirectionArgs == {0, 9000}

InitObjects ==
    /\ \E k \in {1, 2} :
         /\ crust = IF k = 1 THEN ContinentalCrust ELSE OceanicCrust
         /\ mantle = [Mantle_new EXCEPT
                         !.plates = <<IF k = 1 THEN MainPlate1 ELSE MainPlate2>>,
                         !.hot_spots = <<MainHotSpot1, MainHotSpot2>>]
    /\ crust_result = "ok"
    /\ core = InnerCore_new
    /\ outer = OuterCore_new(InnerCore_new)
    /\ last = NoCall
    /\ calls = 0

CallMigrate ==
    \E i \in 1..Len(mantle.hot_spots), flow \in HotSpotFlowArgs,
       dir \in HotSpotDirectionArgs :
        MantleCall("migrate", <<i, flow, dir>>, 0,
                   [mantle EXCEPT !.hot_spots[i] = HotSpot_migrate(@, flow, dir)])

NextObjects ==
    \/ calls < MaxObjectCalls /\ CallGrowByVolcanism
    \/ calls < MaxObjectCalls /\ CallErode
    \/ calls < MaxObjectCalls /\ CallUpdateTectonics
    \/ calls < MaxObjectCalls /\ CallRejuvenateSubduction
    \/ calls < MaxObjectCalls /\ CallAdjustIsostasy
    \/ calls < MaxObjectCalls /\ CallUpdateSurfaceTemperature
    \/ calls < MaxObjectCalls /\ CallDepositSediment
    \/ calls < MaxObjectCalls /\ CallSimulateErosionFeedback
    \/ calls < MaxObjectCalls /\ CallUpdateVegetation
    \/ calls < MaxObjectCalls /\ CallUpdateMotion
    \/ calls < MaxObjectCalls /\ CallSubduct
    \/ calls < MaxObjectCalls /\ CallSpread
    \/ calls < MaxObjectCalls /\ CallSimulateTransform
    \/ calls < MaxObjectCalls /\ CallSimulateBackArcSpreading
    \/ calls < MaxObjectCalls /\ CallMigrate
    \/ calls < MaxObjectCalls /\ CallUpdateCrystallization
    \/ calls < MaxObjectCalls /\ CallUpdateAnisotropy
    \/ calls < MaxObjectCalls /\ CallAdjustAsymmetry
    \/ calls < MaxObjectCalls /\ CallAdjustMagneticContribution
    \/ calls < MaxObjectCalls /\ CallResetMagneticContribution

SpecObjects == InitObjects /\ [][NextObjects]_vars

(***************************************************************************)
(* SpecTransform: a caller holds one plate and drives its transform fault  *)
(* for many calls, by simulate_transform itself or by update_motion, which *)
(* calls simulate_transform once.  calls counts the simulate_transform     *)
(* calls made.                                                             *)
(***************************************************************************)
TransformPlateInits ==
    {MainPlate1, MainPlate2, [MainPlate2 EXCEPT !.shear_stress_mpa = 40]}

InitTransform ==
    /\ crust = NoCrust
    /\ crust_result = "none"
    /\ \E p \in TransformPlateInits : mantle = [Mantle_new EXCEPT !.plates = <<p>>]
    /\ core = InnerCore_new
    /\ outer = OuterCore_new(InnerCore_new)
    /\ last = NoCall
    /\ calls = 0

TransformCall(op, ret, p) ==
    /\ calls < MaxTransformCalls
    /\ mantle' = [mantle EXCEPT !.plates[1] = p]
    /\ last' = [op |-> op, slipped |-> ret, before |-> mantle.plates[1]]
    /\ calls' = calls + 1
    /\ UNCHANGED <<crust, crust_result, core, outer>>

RepeatSimulateTransform ==
    LET r == Plate_simulate_transform(mantle.plates[1])
    IN  TransformCall("simulate_transform", r.ret, r.plate)

RepeatUpdateMotion ==
    \E flow \in FlowRateArgs :
        LET r == Plate_update_motion(mantle.plates[1], flow, 9300)
        IN  TransformCall("update_motion", r.earthquake_occurred, r.plate)

NextTransform ==
    \/ RepeatSimulateTransform
    \/ RepeatUpdateMotion

SpecTransform == InitTransform /\ [][NextTransform]_vars

(***************************************************************************)
(* SpecPlates: a caller holds a Mantle with two plates, each at main's     *)
(* age or one or two calls from a threshold, and either moves one plate    *)
(* itself or runs the coordinator's step, which moves both.  last.signals  *)
(* counts the subduction onsets signalled so far: the started_subduction   *)
(* results of the direct calls and the subduction events of the steps.     *)
(***************************************************************************)
StepYearsArgs == {1000000}

\* the aggregates update_advanced_dynamics reports (lines 319-343)
Mantle_report(acc) ==
    [ subduction_events |-> acc.subduction_events,
      earthquake_events |-> acc.earthquake_events,
      total_subduction_volume |-> acc.total_subduction_volume,
      total_spread_area |-> acc.total_spread_area,
      total_back_arc_area |-> acc.total_back_arc_area,
      total_volcanic_growth |-> acc.total_volcanic_growth,
      total_tectonic_deformation |-> acc.total_tectonic_deformation ]

InitPlates ==
    /\ crust = NoCrust
    /\ crust_result = "none"
    /\ \E p \in PlateInits, q \in PlateInits :
         mantle = [Mantle_new EXCEPT !.plates = <<p, q>>,
                                    !.hot_spots = <<MainHotSpot1, MainHotSpot2>>]
    /\ core = InnerCore_new
    /\ outer = OuterCore_new(InnerCore_new)
    /\ last = [op |-> "none", signals |-> 0]
    /\ calls = 0

MovePlate ==
    /\ calls < MaxCalls
    /\ \E i \in 1..Len(mantle.plates), flow \in FlowRateArgs :
         LET r == Plate_update_motion(mantle.plates[i], flow, 9300)
         IN  /\ mantle' = [mantle EXCEPT !.plates[i] = r.plate]
             /\ last' = [op |-> "update_motion", plate |-> i,
                         started_subduction |-> r.started_subduction,
                         before |-> mantle,
                         signals |-> last.signals
                                       + (IF r.started_subduction THEN 1 ELSE 0)]
    /\ calls' = calls + 1
    /\ UNCHANGED <<crust, crust_result, core, outer>>

CallUpdateAdvancedDynamics ==
    /\ calls < MaxCalls
    /\ \E years \in StepYearsArgs :
         LET r == Mantle_update_advanced_dynamics(mantle, years)
         IN  /\ mantle' = r.mantle
             /\ last' = [op |-> "update_advanced_dynamics", years |-> years,
                         report |-> Mantle_report(r.report),
                         before |-> mantle,
                         signals |-> last.signals + r.report.subduction_events]
    /\ calls' = calls + 1
    /\ UNCHANGED <<crust, crust_result, core, outer>>

NextPlates ==
    \/ MovePlate
    \/ CallUpdateAdvancedDynamics

SpecPlates == InitPlates /\ [][NextPlates]_vars

(***************************************************************************)
(* SpecConvection: a caller takes Mantle::new(), pushes four plates that   *)
(* are one step from subduction, and then runs simulation steps and mixes  *)
(* slabs into the lower mantle in any order; in its first two calls it may *)
(* also call the two update_lateral_flow methods itself.                   *)
(***************************************************************************)
ConvectionPlates ==
    LET p == [MainPlate1 EXCEPT !.age_myr = 1000]
        q == [MainPlate2 EXCEPT !.age_myr = 1000]
    IN  <<p, q, p, q>>

ConvectionInfluenceArgs == {300}

InitConvection ==
    /\ crust = NoCrust
    /\ crust_result = "none"
    /\ mantle = [Mantle_new EXCEPT !.plates = ConvectionPlates]
    /\ core = InnerCore_new
    /\ outer = OuterCore_new(InnerCore_new)
    /\ last = NoCall
    /\ calls = 0

ConvectionCall(op, m) ==
    /\ calls < MaxConvectionCalls
    /\ mantle' = m
    /\ last' = [op |-> op]
    /\ calls' = calls + 1
    /\ UNCHANGED <<crust, crust_result, core, outer>>

MixSlab ==
    \E slab_volume \in SlabArgs :
        ConvectionCall("mix_composition",
            [mantle EXCEPT !.lower_mantle =
                 LowerMantle_mix_composition(@, slab_volume)])

StepMantle ==
    \E years \in StepYearsArgs :
        ConvectionCall("update_advanced_dynamics",
                       Mantle_update_advanced_dynamics(mantle, years).mantle)

UpdateLowerMantleFlow ==
    /\ calls < MaxFlowCalls
    /\ ConvectionCall("LowerMantle::update_lateral_flow",
            [mantle EXCEPT !.lower_mantle = LowerMantle_update_lateral_flow(@)])

UpdateAsthenosphereFlow ==
    /\ calls < MaxFlowCalls
    /\ \E core_influence \in ConvectionInfluenceArgs :
         ConvectionCall("Asthenosphere::update_lateral_flow",
             [mantle EXCEPT !.asthenosphere =
                  Asthenosphere_update_lateral_flow(@, core_influence)])

NextConvection ==
    \/ MixSlab
    \/ StepMantle
    \/ UpdateLowerMantleFlow
    \/ UpdateAsthenosphereFlow

SpecConvection == InitConvection /\ [][NextConvection]_vars

(***************************************************************************)
(* SpecAging: a caller takes Mantle::new(), pushes main's two plates at an *)
(* age past the spreading threshold (19.9, where the increment brings the  *)
(* age to exactly 20, main's 50, or 99), and repeats the simulation step.  *)
(* SpecAgingFair adds that the caller does go on repeating the step: main  *)
(* itself runs it once, the repetition is the caller's.  The step is       *)
(* always possible and is the only action, so its fairness is stated on    *)
(* the counter of the steps taken.                                         *)
(***************************************************************************)
AgingAges == {199, 500, 990}

InitAging ==
    /\ crust = NoCrust
    /\ crust_result = "none"
    /\ \E age \in AgingAges :
         mantle = [Mantle_new EXCEPT
                     !.plates = <<[MainPlate1 EXCEPT !.age_myr = age],
                                  [MainPlate2 EXCEPT !.age_myr = age]>>]
    /\ core = InnerCore_new
    /\ outer = OuterCore_new(InnerCore_new)
    /\ last = NoCall
    /\ calls = 0

StepAging ==
    /\ calls < MaxAgingSteps
    /\ \E years \in StepYearsArgs :
         mantle' = Mantle_update_advanced_dynamics(mantle, years).mantle
    /\ last' = [op |-> "update_advanced_dynamics"]
    /\ calls' = calls + 1
    /\ UNCHANGED <<crust, crust_result, core, outer>>

NextAging == StepAging

SpecAging == InitAging /\ [][NextAging]_vars

\* StepAging as the call counter sees it
StepTaken == calls < MaxAgingSteps /\ calls' = calls + 1

SpecAgingFair == SpecAging /\ WF_calls(StepTaken)

(***************************************************************************)
(* SpecThickness: a caller holds a Mantle whose crust is at the floor, in  *)
(* the middle, just below or at the cap of its thickness range, with no    *)
(* plate, one or two: main's volcanic and non-volcanic plates, and         *)
(* volcanic plates moving fast enough, forwards or backwards, to deform    *)
(* the crust by more than the whole range in one call.  It repeats the     *)
(* simulation step with zero, main's or a very long time.                  *)
(***************************************************************************)
ThicknessInits == {50000, 350000, 699990, 700000}

ThicknessPlates ==
    {MainPlate1, MainPlate2,
     [MainPlate1 EXCEPT !.velocity_cm_per_year = 10000000],
     [MainPlate1 EXCEPT !.velocity_cm_per_year = -20000000]}

ThicknessYearsArgs == {0, 1000000, 300000000}

InitThickness ==
    /\ crust = NoCrust
    /\ crust_result = "none"
    /\ \E t \in ThicknessInits,
          ps \in {<< >>} \cup {<<p>> : p \in ThicknessPlates}
                  \cup {<<p, q>> : p \in ThicknessPlates, q \in ThicknessPlates} :
         mantle = [Mantle_new EXCEPT !.crust.thickness_km = t, !.plates = ps]
    /\ core = InnerCore_new
    /\ outer = OuterCore_new(InnerCore_new)
    /\ last = NoCall
    /\ calls = 0

StepThickness ==
    /\ calls < MaxThicknessSteps
    /\ \E years \in ThicknessYearsArgs :
         LET r == Mantle_update_advanced_dynamics(mantle, years)
         IN  /\ mantle' = r.mantle
             /\ last' = [op |-> "update_advanced_dynamics", years |-> years,
                         report |-> Mantle_report(r.report),
                         thickness_before |-> mantle.crust.thickness_km]
    /\ calls' = calls + 1
    /\ UNCHANGED <<crust, crust_result, core, outer>>

NextThickness == StepThickness

SpecThickness == InitThickness /\ [][NextThickness]_vars

(***************************************************************************)
(* SpecPublicCore: a caller constructs InnerCore::new() and                *)
(* OuterCore::new(&core) as main does and then only calls                  *)
(* update_crystallization on the one and update_dynamics, with that inner  *)
(* core, on the other, in any order and with non-negative years.           *)
(* last.crystallized tells whether update_crystallization has been called. *)
(***************************************************************************)
InitPublicCore ==
    /\ crust = NoCrust
    /\ crust_result = "none"
    /\ mantle = Mantle_new
    /\ core = InnerCore_new
    /\ outer = OuterCore_new(InnerCore_new)
    /\ last = [op |-> "none", crystallized |-> FALSE]
    /\ calls = 0

PublicUpdateCrystallization ==
    /\ calls < MaxPublicCalls
    /\ \E years \in CrystallizationYearsArgs :
         /\ core' = InnerCore_update_crystallization(core, years)
         /\ last' = [op |-> "update_crystallization", years |-> years,
                     crystallized |-> TRUE]
    /\ calls' = calls + 1
    /\ UNCHANGED <<crust, crust_result, mantle, outer>>

PublicUpdateDynamics ==
    /\ calls < MaxPublicCalls
    /\ \E years \in DynamicsYearsArgs,
          reversal_draw \in BOOLEAN, anomaly_draw \in BOOLEAN :
         /\ outer' = OuterCore_update_dynamics(outer, core, years,
                                               reversal_draw, anomaly_draw)
         /\ last' = [op |-> "update_dynamics", years |-> years,
                     reversal_draw |-> reversal_draw,
                     anomaly_draw |-> anomaly_draw,
                     crystallized |-> last.crystallized]
    /\ calls' = calls + 1
    /\ UNCHANGED <<crust, crust_result, mantle, core>>

NextPublicCore ==
    \/ PublicUpdateCrystallization
    \/ PublicUpdateDynamics

SpecPublicCore == InitPublicCore /\ [][NextPublicCore]_vars

(***************************************************************************)
(* The claims.                                                             *)
(***************************************************************************)

\* C1: after every erode, grow_by_volcanism or update_tectonics call on a
\* constructed Crust, thickness_km is within [5, 70].
C1_ThicknessWithinRange ==
    crust_result = "ok" =>
        (crust.thickness_km >= 50000 /\ crust.thickness_km <= 700000)

\* C2: Crust::new never ends in an abort: with "continental" or "oceanic" it
\* constructs that crust, and with any other string it ends in a failure the
\* caller survives, with no Crust constructed.
C2_InvalidTypeIsRecoverable ==
    /\ crust_result # "panic"
    /\ last.op = "Crust::new" =>
         IF last.type_name \in {"continental", "oceanic"}
         THEN crust_result = "ok" /\ crust.type_name = last.type_name
         ELSE crust = NoCrust

\* C3: once is_subducting is true it is true after every later operation on
\* the plate.
C3_SubductingIsSticky ==
    [][mantle.plates[1].is_subducting => mantle'.plates[1].is_subducting]_vars

\* C3 witness: an update_motion call on a subducting plate whose age is
\* below the spreading threshold (it spread in this call), so not above the
\* subduction threshold; the flag is still set.
C3_Witness ==
    /\ last.op = "update_motion"
    /\ last.before.plates[1].is_subducting
    /\ last.ret.spread_area > 0
    /\ ~last.ret.started_subduction
    /\ mantle.plates[1].age_myr <= 1000
    /\ mantle.plates[1].is_subducting

\* C4: has_heat_anomaly is false at construction and, once true, stays true.
C4_HeatAnomalyIsSticky ==
    /\ ~outer.has_heat_anomaly
    /\ [][outer.has_heat_anomaly => outer'.has_heat_anomaly]_vars

\* C4 witness: an update_dynamics call that ends with convection strength at
\* or below 0.8 on an outer core whose flag an earlier call has set.
C4_Witness ==
    /\ last.op = "update_dynamics"
    /\ calls >= 2
    /\ FLe(outer.convection_strength, FNorm(8, -1))
    /\ outer.has_heat_anomaly

\* C5: after a step, the outer core holds the heat flux that this step's
\* update_crystallization computed from the grown radius, and its convection
\* strength is derived from that value.
C5_DynamicsReadsUpdatedCore ==
    last.op = "main_step" =>
        LET post == InnerCore_update_crystallization(last.core_before, last.sim_years)
            c    == OuterCore_convection(post.heat_flux_mw_per_m2)
        IN  /\ core = post
            /\ core.radius_km
                 = last.core_before.radius_km
                     + InnerCore_growth_km(last.core_before, last.sim_years)
            /\ core.heat_flux_mw_per_m2
                 = InnerCore_update_heat_flux(core).heat_flux_mw_per_m2
            /\ outer.heat_flux_from_inner_mw_per_m2 = core.heat_flux_mw_per_m2
            /\ outer.convection_strength
                 = IF outer.light_elements_enrichment > 3000
                   THEN FMul(c, FNorm(95, -2)) ELSE c

\* C5 witness: a second or later step in which the inner core's heat flux
\* changed, so the value before the step and the value after it differ.
C5_Witness ==
    /\ last.op = "main_step"
    /\ calls >= 2
    /\ last.core_before.heat_flux_mw_per_m2 # core.heat_flux_mw_per_m2
    /\ last.outer_before.heat_flux_from_inner_mw_per_m2
         = last.core_before.heat_flux_mw_per_m2

\* C6: after a step, D'' holds as heat_flux_in the mantle-bound flux this
\* step's update_dynamics produced (0.06 x convection strength), as
\* heat_flux_out 0.02, and its temperature has changed by 8 x (in - out),
\* once.
C6_TransferHeatOncePerStep ==
    last.op = "main_step" =>
        LET d == mantle.d_prime_prime
        IN  /\ d.heat_flux_in = outer.heat_flux_to_mantle_mw_per_m2
            /\ outer.heat_flux_to_mantle_mw_per_m2
                 = FMul(outer.convection_strength, FNorm(6, -2))
            /\ d.heat_flux_out = FNorm(2, -2)
            /\ d.temperature_c
                 = last.mantle_before.d_prime_prime.temperature_c
                     + FToFix(FMul(FSub(d.heat_flux_in, d.heat_flux_out),
                                   FNorm(8, 0)), -4)

\* C6 witness: a second or later step whose mantle-bound flux differs from
\* the one the step before produced, and which changed the D'' temperature.
C6_Witness ==
    /\ last.op = "main_step"
    /\ calls >= 2
    /\ outer.heat_flux_to_mantle_mw_per_m2
         # last.outer_before.heat_flux_to_mantle_mw_per_m2
    /\ mantle.d_prime_prime.temperature_c
         # last.mantle_before.d_prime_prime.temperature_c

\* C7: light_elements_enrichment is within [0, 100] after every
\* enrich_light_elements and update_dynamics call.
C7_EnrichmentWithinRange ==
    outer.light_elements_enrichment >= 0 /\ outer.light_elements_enrichment <= 10000

\* C7 witness: a repeated large delta: a second or later call adds 150 and
\* the enrichment is at its ceiling.
C7_Witness ==
    /\ last.op = "enrich_light_elements"
    /\ calls >= 2
    /\ last.arg = 15000
    /\ outer.light_elements_enrichment = 10000

\* C8: vegetation_coverage_pct is within [0, 100] after every
\* update_vegetation call.
C8_VegetationWithinRange ==
    crust_result = "ok" =>
        (crust.vegetation_coverage_pct >= 0 /\ crust.vegetation_coverage_pct <= 1000)

\* C8 witness: update_vegetation with a negative change larger than the
\* coverage a continental crust held: the coverage is at its floor.
C8_Witness ==
    /\ last.op = "update_vegetation"
    /\ crust.type_name = "continental"
    /\ last.arg < 0
    /\ last.before.vegetation_coverage_pct + last.arg < 0
    /\ crust.vegetation_coverage_pct = 0

\* C9: every factor declared in [0,1] is within [0,1]: InnerCore's three
\* factors after any of its adjustments, and OuterCore's convection_strength
\* after new and after every update_dynamics, whatever heat flux it is
\* derived from.
C9_FactorsWithinUnitRange ==
    /\ core.magnetic_contribution_factor \in 0..100
    /\ core.crystal_anisotropy_factor \in 0..100
    /\ core.asymmetric_growth_factor \in 0..100
    /\ FLe(FZero, outer.convection_strength)
    /\ FLe(outer.convection_strength, FOne)

\* C10: every direction field is in [0, 360) in every reachable state.
C10_DirectionsNormalized ==
    /\ mantle.plates[1].motion_direction_deg >= 0
    /\ mantle.plates[1].motion_direction_deg < 36000
    /\ mantle.asthenosphere.dominant_flow_direction_deg >= 0
    /\ mantle.asthenosphere.dominant_flow_direction_deg < 36000
    /\ mantle.lower_mantle.dominant_flow_direction_deg >= 0
    /\ mantle.lower_mantle.dominant_flow_direction_deg < 36000

\* C11: after every HotSpot::migrate call the latitude is within [-90, 90]
\* and the longitude within [-180, 180].
C11_HotSpotWithinRange ==
    \A i \in 1..Len(mantle.hot_spots) :
        /\ mantle.hot_spots[i].lat_deg >= -9000
        /\ mantle.hot_spots[i].lat_deg <= 9000
        /\ mantle.hot_spots[i].lon_deg >= -18000
        /\ mantle.hot_spots[i].lon_deg <= 18000

\* C12: a reset event (grow_by_volcanism, rejuvenate_subduction, spread, the
\* spread inside update_motion) sets the age to 0; every other operation
\* leaves each age as it was or increases it.
C12_AgesResetOrGrow ==
    [][ /\ IF last'.op \in {"grow_by_volcanism", "rejuvenate_subduction"}
           THEN crust'.age_myr = 0
           ELSE crust'.age_myr >= crust.age_myr
        /\ IF \/ last'.op = "spread"
              \/ (last'.op = "update_motion" /\ last'.ret.spread_area > 0)
           THEN mantle'.plates[1].age_myr = 0
           ELSE mantle'.plates[1].age_myr >= mantle.plates[1].age_myr
        /\ core'.age_myr >= core.age_myr
        /\ \A i \in 1..Len(mantle.hot_spots) :
             mantle'.hot_spots[i].surface_age_myr
               >= mantle.hot_spots[i].surface_age_myr ]_vars

\* C12 witness: an update_motion call that spread a plate of positive age:
\* its age is 0.
C12_Witness ==
    /\ last.op = "update_motion"
    /\ last.ret.spread_area > 0
    /\ last.before.plates[1].age_myr > 0
    /\ mantle.plates[1].age_myr = 0

\* C13: radius_km and mass_kg never decrease, the first update_crystallization
\* call, which replaces the constructor's mass, included.
C13_RadiusAndMassNeverDecrease ==
    [][ /\ core'.radius_km >= core.radius_km
        /\ FLe(core.mass_kg, core'.mass_kg) ]_vars

\* C13 witness: the first call, an update_crystallization that grew the
\* radius and replaced the constructor's mass.
C13_Witness ==
    /\ last.op = "update_crystallization"
    /\ calls = 1
    /\ core.radius_km > InnerCore_new.radius_km
    /\ core.mass_kg # InnerCore_new.mass_kg

\* C14: update_crystallization(years) grows the radius by rate x years / 10^6
\* km, advances the age by years / 10^6 Myr and leaves the mass of a sphere of
\* the grown radius at density 12800; from InnerCore::new() and 10,000,000
\* years that is radius 1231 km and age 1010 Myr.
C14_CrystallizationGrowth ==
    [][ last'.op = "update_crystallization" =>
          LET years    == last'.arg
              radius_m == FNorm(core'.radius_km, 3)
              sphere   == FMul(FMul(FDiv(FNorm(4, 0), FNorm(3, 0)), PI),
                               FMul(FMul(radius_m, radius_m), radius_m))
          IN  /\ core'.radius_km
                   = core.radius_km
                       + (core.crystallization_rate_mm_per_year * years) \div 10000000
              /\ core'.age_myr = core.age_myr + years \div 100000
              /\ core'.mass_kg = FMul(sphere, FNorm(12800, 0))
              /\ (core = InnerCore_new /\ years = 10000000) =>
                   /\ core'.radius_km = 1231
                   /\ core'.age_myr = 10100
                   /\ radius_m = FNorm(1231, 3) ]_vars

\* C14 witness: the call of 10,000,000 years on the constructed inner core.
C14_Witness ==
    /\ last.op = "update_crystallization"
    /\ calls = 1
    /\ last.arg = 10000000
    /\ core.radius_km = 1231
    /\ core.age_myr = 10100

\* C15: sediment_thickness_km never decreases, whatever Crust operation runs.
C15_SedimentNeverDecreases ==
    [][crust'.sediment_thickness_km >= crust.sediment_thickness_km]_vars

\* C16: subduct on a subducting plate returns 1% of the area, adds exactly
\* that to the stored slab volume and leaves the plate 99% of its area; on a
\* plate that is not subducting it returns 0 and changes nothing.
C16_SubductConserves ==
    last.op = "subduct" =>
        LET p0  == last.before.plates[1]
            lm0 == last.before.lower_mantle
        IN  IF p0.is_subducting
            THEN /\ last.ret = p0.area_km2 \div 100
                 /\ mantle.lower_mantle.stored_slab_volume_km3
                      = lm0.stored_slab_volume_km3 + last.ret
                 /\ mantle.plates[1]
                      = [p0 EXCEPT !.area_km2 = p0.area_km2 - p0.area_km2 \div 100]
            ELSE /\ last.ret = 0
                 /\ mantle.plates[1] = p0
                 /\ mantle.lower_mantle = lm0

\* C16 witness: subduct on a subducting plate: material was recycled.
C16_Witness ==
    /\ last.op = "subduct"
    /\ last.before.plates[1].is_subducting
    /\ last.ret > 0
    /\ mantle.lower_mantle.stored_slab_volume_km3 > 0
    /\ mantle.plates[1].area_km2 < last.before.plates[1].area_km2

\* C17: off a transform boundary simulate_transform never changes the stress
\* and never slips; on one, from stress 0, each call adds 5, the fault slips
\* in exactly the calls where the raised stress exceeds 300 and the stress is
\* then 0: the stress stays within [0, 300] and the slips are the calls 61,
\* 122, ...
C17_TransformStressCycle ==
    LET p == mantle.plates[1]
    IN  IF p.is_transform_boundary
        THEN /\ p.shear_stress_mpa = 5 * (calls % 61)
             /\ p.shear_stress_mpa >= 0
             /\ p.shear_stress_mpa <= 300
             /\ last.op # "none" =>
                  /\ last.slipped <=> (calls % 61 = 0)
                  /\ last.slipped <=> (last.before.shear_stress_mpa + 5 > 300)
                  /\ p.shear_stress_mpa
                       = IF last.slipped THEN 0
                         ELSE last.before.shear_stress_mpa + 5
        ELSE last.op # "none" =>
                  /\ ~last.slipped
                  /\ p.shear_stress_mpa = last.before.shear_stress_mpa

\* C17 witness: the second slip, at the 122nd call.
C17_Witness ==
    /\ last.op # "none"
    /\ last.slipped
    /\ calls = 122
    /\ mantle.plates[1].shear_stress_mpa = 0

\* C18: update_motion reports the subduction onset in exactly the call that
\* flips is_subducting; the coordinator's count is the number of plates that
\* flipped in its step; and each plate has signalled at most once.
C18_OnsetSignalledOnce ==
    LET flipped == {i \in 1..Len(mantle.plates) :
                       /\ ~last.before.plates[i].is_subducting
                       /\ mantle.plates[i].is_subducting}
    IN  /\ last.op = "update_motion" =>
             /\ last.started_subduction <=> (last.plate \in flipped)
             /\ last.started_subduction <=>
                  /\ last.before.plates[last.plate].age_myr + 1 > 1000
                  /\ ~last.before.plates[last.plate].is_subducting
        /\ last.op = "update_advanced_dynamics" =>
             last.report.subduction_events = Cardinality(flipped)
        /\ last.signals
             = Cardinality({i \in 1..Len(mantle.plates) :
                               mantle.plates[i].is_subducting})

\* C18 witness: a coordinator step over a plate that was already subducting
\* and a plate that starts in this step: one onset is counted.
C18_Witness ==
    /\ last.op = "update_advanced_dynamics"
    /\ last.report.subduction_events = 1
    /\ \E i \in 1..Len(mantle.plates) :
         /\ last.before.plates[i].is_subducting
         /\ last.before.plates[i].age_myr > 1000

C20_DerivedFieldsConsistent ==
    last.op = "update_dynamics" =>
        LET ic   == last.arg.inner_core
            base == FMin(FDiv(ic.heat_flux_mw_per_m2, FNorm(1, -1)), FOne)
            c    == IF outer.light_elements_enrichment > 3000
                    THEN FMul(base, FNorm(95, -2)) ELSE base
        IN  /\ outer.convection_strength = c
            /\ outer.magnetic_field_strength
                 = FMul(c, FNorm(ic.magnetic_contribution_factor, -2))
            /\ outer.toroidal_flow_factor = FMul(c, FNorm(7, -1))
            /\ outer.poloidal_flow_factor = FMul(c, FNorm(3, -1))
            /\ outer.heat_flux_to_mantle_mw_per_m2 = FMul(c, FNorm(6, -2))

\* C20 witness: the second update_dynamics call in a row over an enrichment
\* above 30: both calls dampened.
C20_Witness ==
    /\ last.op = "update_dynamics"
    /\ outer.total_time_myr >= 200
    /\ outer.light_elements_enrichment >= 3300

\* C21: with the two random draws as nondeterministic choices, an
\* update_dynamics call flips magnetic_polarity_normal exactly when the
\* magnetic field strength it derived is below 0.3 and the reversal draw
\* succeeds, and sets has_heat_anomaly exactly when its (possibly dampened)
\* convection strength is above 0.8 and the anomaly draw succeeds; with a
\* false guard the field is unchanged, and neither outcome depends on the
\* other's guard or draw.
C21_DrawsGuardedAndIndependent ==
    [][last'.op = "update_dynamics" =>
         LET reversal_guard == FLt(outer'.magnetic_field_strength, FNorm(3, -1))
             anomaly_guard == FLt(FNorm(8, -1), outer'.convection_strength)
         IN  /\ outer'.magnetic_polarity_normal =
                    IF reversal_guard /\ last'.arg.reversal_draw
                    THEN ~outer.magnetic_polarity_normal
                    ELSE outer.magnetic_polarity_normal
             /\ outer'.has_heat_anomaly =
                    (outer.has_heat_anomaly
                        \/ (anomaly_guard /\ last'.arg.anomaly_draw))]_vars

\* an update_dynamics call in which both guards held and both draws
\* succeeded: the polarity is reversed and the anomaly is set
C21_Witness ==
    /\ last.op = "update_dynamics"
    /\ last.arg.reversal_draw /\ last.arg.anomaly_draw
    /\ FLt(outer.magnetic_field_strength, FNorm(3, -1))
    /\ FLt(FNorm(8, -1), outer.convection_strength)
    /\ ~outer.magnetic_polarity_normal
    /\ outer.has_heat_anomaly
    /\ calls = 2

\* C22: from Mantle::new(), across any sequence of simulation steps and
\* mix_composition calls, deep_convection_strength never decreases and never
\* exceeds 1.0, and after every update_lateral_flow the lower mantle's
\* lateral flow rate is at most 10 and the asthenosphere's at most 20.
C22_ConvectionMonotoneAndCapped ==
    /\ mantle.lower_mantle.deep_convection_strength <= 100
    /\ [][/\ mantle'.lower_mantle.deep_convection_strength
                >= mantle.lower_mantle.deep_convection_strength
          /\ mantle'.lower_mantle.deep_convection_strength <= 100
          /\ last'.op \in {"update_advanced_dynamics",
                           "LowerMantle::update_lateral_flow"}
                => mantle'.lower_mantle.lateral_flow_rate_cm_per_year <= 1000
          /\ last'.op \in {"update_advanced_dynamics",
                           "Asthenosphere::update_lateral_flow"}
                => mantle'.asthenosphere.lateral_flow_rate_cm_per_year <= 2000]_vars

\* a mix_composition call on a lower mantle whose strength was already 1.0
\* when the last step derived its flow rate (5 cm/yr), after the plates'
\* own slabs had been mixed in
C22_Witness ==
    /\ last.op = "mix_composition"
    /\ mantle.lower_mantle.deep_convection_strength = 100
    /\ mantle.lower_mantle.lateral_flow_rate_cm_per_year = 500
    /\ mantle.asthenosphere.lateral_flow_rate_cm_per_year = 1000
    /\ \A i \in 1..Len(mantle.plates) : mantle.plates[i].is_subducting

\* the calls of SpecPlates that run update_motion on plate i
C23_Moved(i) ==
    \/ last'.op = "update_advanced_dynamics"
    \/ last'.op = "update_motion" /\ last'.plate = i

\* the area a young plate gains in one update_motion call: the spreading
\* increment, and the back-arc spreading if it is counted
C23_Growth(plate, back_arc_counted) ==
    10000 + (IF back_arc_counted /\ plate.has_back_arc_spreading
             THEN plate.back_arc_spreading_rate_cm_per_year * 10
             ELSE 0)

\* what one call does to every young plate (age + 0.1 < 20, not subducting)
C23_YoungPlateCall(back_arc_counted) ==
    \A i \in 1..Len(mantle.plates) :
        LET before == mantle.plates[i]
            after == mantle'.plates[i]
        IN  (before.age_myr + 1 < 200 /\ ~before.is_subducting) =>
               /\ ~after.is_subducting
               /\ IF C23_Moved(i)
                  THEN /\ after.age_myr = 0
                       /\ after.area_km2
                            = before.area_km2 + C23_Growth(before, back_arc_counted)
                  ELSE after = before

\* C23: a young plate never ages into subduction: a plate with
\* age + 0.1 < 20 that is not subducting is spread by every update_motion
\* call, which leaves its age at exactly 0 and never sets is_subducting, and
\* its area grows per call by the spreading increment of 10,000 plus, if it
\* has back-arc spreading, by its back-arc rate times 1000.
C23_YoungPlateNeverSubducts ==
    [][C23_YoungPlateCall(TRUE)]_vars

\* C23 as stated: the area of a young plate grows by 10,000 per call
C23_AreaGrowsBySpreadOnly ==
    [][C23_YoungPlateCall(FALSE)]_vars

\* a young back-arc plate moved again after a call had reset its age: it
\* has gained 12,000 in each of two calls
C23_Witness ==
    /\ last.op = "update_motion"
    /\ calls >= 2
    /\ LET before == last.before.plates[last.plate]
           after == mantle.plates[last.plate]
       IN  /\ before.age_myr = 0 /\ ~before.is_subducting
           /\ before.has_back_arc_spreading
           /\ after.age_myr = 0 /\ ~after.is_subducting
           /\ after.area_km2 = 100024000

\* what one simulation step does to plate i when its age after the
\* increment is at least 20: no spreading, 0.1 more age, subduction from the
\* first call that leaves the age above 100, and from then on 1% less area
\* in every step, taken from the area the plate has after its back-arc
\* spreading if that is counted
C24_AgingCall(i, back_arc_counted) ==
    LET before == mantle.plates[i]
        after == mantle'.plates[i]
        moved == before.area_km2
                   + (IF back_arc_counted
                      THEN Plate_simulate_back_arc_spreading(before).ret
                      ELSE 0)
    IN  before.age_myr + 1 >= 200 =>
           /\ after.age_myr = before.age_myr + 1
           /\ after.is_subducting
                 = (before.is_subducting \/ after.age_myr > 1000)
           /\ IF after.is_subducting
              THEN after.area_km2 = moved - Quot(moved, 100)
              ELSE back_arc_counted => after.area_km2 = moved

\* C24: a non-subducting plate whose age after the per-call increment is at
\* least 20 is never spread again, gains exactly 0.1 age per call, and under
\* repeated simulation steps eventually starts subducting, at the first call
\* at which its age exceeds 100; from then on every step takes 1% of the
\* area the plate has after that step's back-arc spreading.
C24_AgingPlateSubducts ==
    /\ [][C24_AgingCall(1, TRUE) /\ C24_AgingCall(2, TRUE)]_vars
    /\ <>(mantle.plates[1].is_subducting /\ mantle.plates[2].is_subducting)

\* C24 as stated: once subducting, the plate's area shrinks by 1% in every step
C24_AreaShrinksByOnePercent ==
    [][C24_AgingCall(1, FALSE) /\ C24_AgingCall(2, FALSE)]_vars

\* plates that started at age 19.9, were never spread, started subducting
\* in the 802nd step and have been recycled in two steps
C24_Witness ==
    /\ last.op = "update_advanced_dynamics"
    /\ calls = 803
    /\ \A i \in 1..2 : /\ mantle.plates[i].age_myr = 1002
                        /\ mantle.plates[i].is_subducting
    /\ mantle.plates[2].area_km2 < 60000000

\* C25: at the end of every update_advanced_dynamics(years) call with
\* non-negative years, from a crust thickness in [5, 70] and for any plate
\* collection, crust.thickness_km is within [5, 70].
C25_StepKeepsThicknessInRange ==
    /\ mantle.crust.thickness_km >= 50000
    /\ mantle.crust.thickness_km <= 700000

\* a step of zero years on a crust at the cap in which a plate's volcanism
\* grew the crust and no deformation was negative: the thickness was above
\* 70 inside the call, and is 70 at its end
C25_Witness ==
    /\ last.op = "update_advanced_dynamics"
    /\ last.years = 0
    /\ last.thickness_before = 700000
    /\ last.report.total_volcanic_growth > 0
    /\ \A i \in 1..Len(mantle.plates) : mantle.plates[i].velocity_cm_per_year > 0
    /\ mantle.crust.thickness_km = 700000

\* what C26 says of every state; the magnetic field strength is looked at
\* after the update_dynamics calls that "after" admits
C26_PublicCoreState(after_crystallization_only) ==
    /\ ~outer.has_heat_anomaly
    /\ FLe(outer.convection_strength, FNorm(8, -1))
    /\ FLe(OuterCore_convection(core.heat_flux_mw_per_m2), FNorm(8, -1))
    /\ (/\ last.op = "update_dynamics"
        /\ after_crystallization_only => last.crystallized)
          => FLt(outer.magnetic_field_strength, FNorm(3, -1))

=============================================================================
